---- MODULE Spec2Model ----
(***************************************************************************)
(* executeInteractiveScriptInContainer (src/unnamed/part_000, the same     *)
(* text as src/index.ts plus the container code): one call of the async    *)
(* function, the child process it spawns, the event handlers it registers, *)
(* the promise it returns and the caller's then-callback in run().         *)
(*                                                                         *)
(* Strings are sequences of tokens.  A chunk that the child emits is a     *)
(* sequence of bytes; "N" and "Q" stand for the ASCII text of the two      *)
(* prompts of scripts/simple_dialogue.sh, "sp" for white space, and        *)
(* "hi","lo" for the two bytes of one 2-byte UTF-8 character.              *)
(* LogEntry.timestamp (new Date()) is not modelled.                        *)
(***************************************************************************)
EXTENDS Integers, Sequences, FiniteSets, TLC

VARIABLES
    pc,               \* position of the async function body
    dialogueTurns,    \* parameter dialogueTurns
    fsDirs,           \* directories that exist under os.tmpdir()
    tempContainerDir, \* let tempContainerDir: <<>> is undefined, <<d>> a path
    stdoutData,       \* let stdoutData
    stderrData,       \* let stderrData
    exitCode,         \* let exitCode: Null or <<code>>
    executionLog,     \* const executionLog: string[]
    actionLog,        \* localAI.actionLog
    child,            \* the ChildProcess: "none", "running", "failed", "errored", "closed"
    stdinEnded,       \* child.stdin.end() was called
    stdinWrites,      \* what was written to child.stdin, in order
    chunksSeen,       \* number of 'data' events delivered so far
    result,           \* settled value of the returned promise, NoResult while pending
    rmState,          \* fs.rm of the finally block: "none", "pending", "removed", "failed"
    termEvents,       \* terminating events observed by the function, in order
    delivered,        \* number of times the caller's then-callback ran
    rawOut,           \* the bytes of all stdout 'data' events, in arrival order
    rawErr,           \* the bytes of all stderr 'data' events, in arrival order
    pcB,              \* a second call of the function: its position, "off" when not made
    tempContainerDirB, \* tempContainerDir of the second call
    rmStateB,         \* fs.rm of the second call's finally block
    executionLogB,    \* executionLog of the second call
    childB,           \* the second call's ChildProcess: "none", "running", "closed"
    resultB,          \* settled value of the promise the second call returned
    chatPc,           \* position of the chat loop of run()
    inputsRead,       \* number of lines rl.question has returned
    functionCalls,    \* const functionCalls of the turn in progress
    responses,        \* const responses: Part[] of the turn in progress
    sentMessages,     \* the arguments of the chat.sendMessage calls, in order
    modelResponses    \* the responses chat.sendMessage resolved with, in order

vars == <<pc, dialogueTurns, fsDirs, tempContainerDir, stdoutData, stderrData,
          exitCode, executionLog, actionLog, child, stdinEnded, stdinWrites,
          chunksSeen, result, rmState, termEvents, delivered,
          rawOut, rawErr,
          pcB, tempContainerDirB, rmStateB, executionLogB, childB, resultB,
          chatPc, inputsRead, functionCalls, responses, sentMessages, modelResponses>>

\* The received bytes, as they arrived.
rawVars == <<rawOut, rawErr>>

\* The locals of the second call.
varsB == <<pcB, tempContainerDirB, rmStateB, executionLogB, childB, resultB>>

\* The state of the chat loop of run().
chatVars == <<chatPc, inputsRead, functionCalls, responses, sentMessages, modelResponses>>

----------------------------------------------------------------------------
(* Bounds *)

MaxTurns == 2
MaxDirs == 2
MaxChunks == 2

(* Inputs *)

DirNames == 1..MaxDirs

\* Directories of other programs that may exist under os.tmpdir() at the call;
\* at least one name is free, so fs.mkdtemp can succeed.
OtherDirs == DirNames \ {1}

TurnName == [promptRegex |-> "N", response |-> "Alice", isPassword |-> FALSE]
TurnQuest == [promptRegex |-> "Q", response |-> "hunter2", isPassword |-> TRUE]
TurnSet == {TurnName, TurnQuest}

TurnSeqs == UNION {[1..n -> TurnSet] : n \in 0..MaxTurns}

StdoutChunks == {<<"N">>, <<"sp", "Q">>, <<"hi">>, <<"lo">>}
StderrChunks == {<<"E">>, <<"hi", "lo">>}

ExitCodes == {0, 1}
SpawnErrnos == {-2}

Null == <<>>
NoResult == <<>>

----------------------------------------------------------------------------
(* Pure helpers *)

\* Buffer.prototype.toString(): UTF-8 decoding of one chunk.  A complete
\* 2-byte sequence decodes to its character, a truncated or stray byte of it
\* to U+FFFD.
RECURSIVE toString(_)
toString(data) ==
    IF data = <<>> THEN <<>>
    ELSE IF Head(data) = "hi"
         THEN IF Len(data) >= 2 /\ data[2] = "lo"
              THEN <<"e'">> \o toString(SubSeq(data, 3, Len(data)))
              ELSE <<"FFFD">> \o toString(Tail(data))
         ELSE IF Head(data) = "lo"
              THEN <<"FFFD">> \o toString(Tail(data))
              ELSE <<Head(data)>> \o toString(Tail(data))

\* String.prototype.trim()
RECURSIVE trimStart(_)
trimStart(s) ==
    IF s # <<>> /\ Head(s) = "sp" THEN trimStart(Tail(s)) ELSE s

RECURSIVE trimEnd(_)
trimEnd(s) ==
    IF s # <<>> /\ s[Len(s)] = "sp" THEN trimEnd(SubSeq(s, 1, Len(s) - 1)) ELSE s

trim(s) == trimEnd(trimStart(s))

\* LocalNixOSAI.log: one entry appended to actionLog; data is appended to the
\* message when it is truthy.
NoData == <<>>
log(level, message, data) ==
    Append(actionLog,
           [level |-> level,
            message |-> IF data # NoData THEN message \o <<"Data:", data>> ELSE message])

\* A promise whose later resolve() calls replace the settled value.
resolveLastWins(cur, value) == value

\* resolve() of the returned Promise: only the first call settles it.
resolve(cur, value) == IF cur = NoResult THEN value ELSE cur

----------------------------------------------------------------------------
(* The values the function resolves or returns *)

\* A close handler that takes every reported exit code for a success.
closeResultAnyCode(code) ==
    [success |-> code # Null,
     stdout |-> stdoutData,
     stderr |-> stderrData,
     exitCode |-> code]

\* resolve({...}) of child.on('close')
closeResult(code) ==
    [success |-> code = <<0>>,
     stdout |-> stdoutData,
     stderr |-> stderrData,
     exitCode |-> code]

\* An error handler that puts its message on the captured stdout.
errorResultOnStdout ==
    [success |-> FALSE,
     stdout |-> stdoutData \o <<"\nProcess spawn error: ", "spawn sudo ENOENT">>,
     stderr |-> stderrData,
     exitCode |-> Null]

\* resolve({...}) of child.on('error')
errorResult ==
    [success |-> FALSE,
     stdout |-> stdoutData,
     stderr |-> stderrData \o <<"\nProcess spawn error: ", "spawn sudo ENOENT">>,
     exitCode |-> Null]

\* A catch block that reports a generic failure status instead of exitCode.
catchResultExitOne(message) ==
    [success |-> FALSE,
     stdout |-> stdoutData,
     stderr |-> stderrData \o <<"\nOuter try-catch error: ", message>>,
     exitCode |-> <<1>>]

\* return {...} of the catch block
catchResult(message) ==
    [success |-> FALSE,
     stdout |-> stdoutData,
     stderr |-> stderrData \o <<"\nOuter try-catch error: ", message>>,
     exitCode |-> exitCode]

\* The launch condition inverted: stdin ended only when turns are given.
endsStdinWhenTurns(turns) == Len(turns) > 0

\* if (dialogueTurns.length === 0) of the Promise executor
endsStdinAtLaunch(turns) == Len(turns) = 0

\* A finally block that never removes the directory.
needsCleanupNever(dir) == FALSE

\* if (tempContainerDir) of the finally block
needsCleanup(dir) == dir # <<>>

----------------------------------------------------------------------------
\* The first call: the arguments are chosen, localAI is constructed (line 278),
\* nothing of the body has run.
InitFirst ==
    /\ pc = "entry"
    /\ dialogueTurns \in TurnSeqs
    /\ fsDirs \in SUBSET OtherDirs
    /\ tempContainerDir = <<>>
    /\ stdoutData = <<>>
    /\ stderrData = <<>>
    /\ exitCode = Null
    /\ executionLog = <<>>
    /\ actionLog = <<[level |-> "INFO", message |-> <<"LocalNixOSAI instance created.">>]>>
    /\ child = "none"
    /\ stdinEnded = FALSE
    /\ stdinWrites = <<>>
    /\ chunksSeen = 0
    /\ result = NoResult
    /\ rmState = "none"
    /\ termEvents = <<>>
    /\ delivered = 0
    /\ rawOut = <<>>
    /\ rawErr = <<>>

\* The locals of a second call, before its body runs.
InitSecond ==
    /\ tempContainerDirB = <<>>
    /\ rmStateB = "none"
    /\ executionLogB = <<>>
    /\ childB = "none"
    /\ resultB = NoResult

\* run() calls the function once (line 291).
\* The chat loop before its first rl.question (line 301).
InitChat ==
    /\ chatPc = "question"
    /\ inputsRead = 0
    /\ functionCalls = <<>>
    /\ responses = <<>>
    /\ sentMessages = <<>>
    /\ modelResponses = <<>>

Init ==
    /\ InitFirst
    /\ InitSecond
    /\ pcB = "off"
    /\ InitChat

\* Lines 135-147: the synchronous head of the function, up to await fs.mkdtemp.
Enter ==
    /\ pc = "entry"
    /\ actionLog' = log("INFO", <<"Starting container execution for script">>, NoData)
    /\ executionLog' = Append(executionLog, <<"Starting container execution for script">>)
    /\ pc' = "mkdtemp"
    /\ UNCHANGED <<dialogueTurns, fsDirs, tempContainerDir, stdoutData, stderrData,
                   exitCode, child, stdinEnded, stdinWrites, chunksSeen, result,
                   rmState, termEvents, delivered>>
    /\ UNCHANGED rawVars
    /\ UNCHANGED varsB
    /\ UNCHANGED chatVars

\* catch (error) { log; push; return {...} } followed by the synchronous start
\* of finally: fs.rm is called when tempContainerDir is set, else the function
\* returns at once.
CatchAndFinally(message) ==
    /\ actionLog' = log("ERROR", <<"Error in executeInteractiveScriptInContainer", message>>, NoData)
    /\ executionLog' = Append(executionLog, <<"Error in executeInteractiveScriptInContainer", message>>)
    /\ result' = catchResult(message)
    /\ termEvents' = Append(termEvents, [kind |-> "exception", code |-> Null])
    /\ IF needsCleanup(tempContainerDir)
       THEN pc' = "rm" /\ rmState' = "pending"
       ELSE pc' = "done" /\ UNCHANGED rmState

\* Lines 147-153: fs.mkdtemp created a directory no other path names.
MkdtempOk ==
    /\ pc = "mkdtemp"
    /\ \E d \in DirNames \ fsDirs :
          /\ fsDirs' = fsDirs \cup {d}
          /\ tempContainerDir' = <<d>>
          /\ actionLog' = log("DEBUG", <<"Created temporary container directory", d>>, NoData)
          /\ executionLog' = Append(executionLog, <<"Created temporary container directory", d>>)
    /\ pc' = "readFile"
    /\ UNCHANGED <<dialogueTurns, stdoutData, stderrData, exitCode, child, stdinEnded,
                   stdinWrites, chunksSeen, result, rmState, termEvents, delivered>>
    /\ UNCHANGED rawVars
    /\ UNCHANGED varsB
    /\ UNCHANGED chatVars

\* fs.mkdtemp rejected: catch, then finally with tempContainerDir undefined.
MkdtempFail ==
    /\ pc = "mkdtemp"
    /\ CatchAndFinally("mkdtemp failed")
    /\ UNCHANGED <<dialogueTurns, fsDirs, tempContainerDir, stdoutData, stderrData,
                   exitCode, child, stdinEnded, stdinWrites, chunksSeen, delivered>>
    /\ UNCHANGED rawVars
    /\ UNCHANGED varsB
    /\ UNCHANGED chatVars

\* Line 153 resolved, line 154 called.
ReadFileOk ==
    /\ pc = "readFile"
    /\ pc' = "writeFile"
    /\ UNCHANGED <<dialogueTurns, fsDirs, tempContainerDir, stdoutData, stderrData,
                   exitCode, executionLog, actionLog, child, stdinEnded, stdinWrites,
                   chunksSeen, result, rmState, termEvents, delivered>>
    /\ UNCHANGED rawVars
    /\ UNCHANGED varsB
    /\ UNCHANGED chatVars

\* fs.readFile rejected.
ReadFileFail ==
    /\ pc = "readFile"
    /\ CatchAndFinally("readFile failed")
    /\ UNCHANGED <<dialogueTurns, fsDirs, tempContainerDir, stdoutData, stderrData,
                   exitCode, child, stdinEnded, stdinWrites, chunksSeen, delivered>>
    /\ UNCHANGED rawVars
    /\ UNCHANGED varsB
    /\ UNCHANGED chatVars

\* fs.writeFile rejected.
WriteFileFail ==
    /\ pc = "writeFile"
    /\ CatchAndFinally("writeFile failed")
    /\ UNCHANGED <<dialogueTurns, fsDirs, tempContainerDir, stdoutData, stderrData,
                   exitCode, child, stdinEnded, stdinWrites, chunksSeen, delivered>>
    /\ UNCHANGED rawVars
    /\ UNCHANGED varsB
    /\ UNCHANGED chatVars

\* Lines 155-217 and 230-233, one synchronous run: the copy is logged, the
\* command is logged, the child is spawned, the handlers are registered, the
\* Promise executor ends stdin for an empty turn list, the Promise is returned
\* and the finally block calls fs.rm.  Whether the container runtime could be
\* started is the environment's choice; a failed start is reported later by
\* the 'error' event.
SpawnAndReturn ==
    /\ pc = "writeFile"
    /\ actionLog' =
          Append(log("DEBUG", <<"Copied script and set executable.">>, NoData),
                 [level |-> "INFO", message |-> <<"Executing: sudo systemd-nspawn">>])
    /\ executionLog' = executionLog \o <<<<"Copied script and set executable.">>,
                                         <<"Executing: sudo systemd-nspawn">>>>
    /\ child' \in {"running", "failed"}
    /\ stdinEnded' = endsStdinAtLaunch(dialogueTurns)
    /\ IF needsCleanup(tempContainerDir)
       THEN pc' = "rm" /\ rmState' = "pending"
       ELSE pc' = "done" /\ UNCHANGED rmState
    /\ UNCHANGED <<dialogueTurns, fsDirs, tempContainerDir, stdoutData, stderrData,
                   exitCode, stdinWrites, chunksSeen, result, termEvents, delivered>>
    /\ UNCHANGED rawVars
    /\ UNCHANGED varsB
    /\ UNCHANGED chatVars

\* fs.rm(tempContainerDir, {recursive, force}) at work in the thread pool:
\* the directory is removed, or the removal fails and it stays.
RmSyscall ==
    /\ pc = "rm"
    /\ rmState = "pending"
    /\ \/ /\ rmState' = "removed"
          /\ fsDirs' = fsDirs \ {tempContainerDir[1]}
       \/ /\ rmState' = "failed"
          /\ UNCHANGED fsDirs
    /\ UNCHANGED <<pc, dialogueTurns, tempContainerDir, stdoutData, stderrData, exitCode,
                   executionLog, actionLog, child, stdinEnded, stdinWrites, chunksSeen,
                   result, termEvents, delivered>>
    /\ UNCHANGED rawVars
    /\ UNCHANGED varsB
    /\ UNCHANGED chatVars

\* A finally block that turns a failed removal into a failed result.
FinallyResumeEscalates ==
    /\ pc = "rm"
    /\ rmState \in {"removed", "failed"}
    /\ actionLog' =
          IF rmState = "removed"
          THEN log("DEBUG", <<"Cleaned up temporary directory", tempContainerDir[1]>>, NoData)
          ELSE log("ERROR", <<"Failed to clean up temporary directory", tempContainerDir[1]>>, NoData)
    /\ result' = IF rmState = "failed" THEN catchResult("cleanup failed") ELSE result
    /\ pc' = "done"
    /\ UNCHANGED <<dialogueTurns, fsDirs, tempContainerDir, stdoutData, stderrData,
                   exitCode, executionLog, child, stdinEnded, stdinWrites, chunksSeen,
                   rmState, termEvents, delivered>>
    /\ UNCHANGED rawVars
    /\ UNCHANGED varsB
    /\ UNCHANGED chatVars

\* Lines 233-238: the await of fs.rm resumes; its outcome goes to localAI's
\* log only, and the function body is over.
FinallyResume ==
    /\ pc = "rm"
    /\ rmState \in {"removed", "failed"}
    /\ actionLog' =
          IF rmState = "removed"
          THEN log("DEBUG", <<"Cleaned up temporary directory", tempContainerDir[1]>>, NoData)
          ELSE log("ERROR", <<"Failed to clean up temporary directory", tempContainerDir[1]>>, NoData)
    /\ pc' = "done"
    /\ UNCHANGED <<dialogueTurns, fsDirs, tempContainerDir, stdoutData, stderrData,
                   exitCode, executionLog, child, stdinEnded, stdinWrites, chunksSeen,
                   result, rmState, termEvents, delivered>>
    /\ UNCHANGED rawVars
    /\ UNCHANGED varsB
    /\ UNCHANGED chatVars

\* Lines 172-178: child.stdout.on('data').  Nothing is matched and nothing is
\* written to child.stdin (line 177 is a TODO).
StdoutData ==
    /\ child = "running"
    /\ chunksSeen < MaxChunks
    /\ \E data \in StdoutChunks :
          LET output == toString(data) IN
          /\ stdoutData' = stdoutData \o output
          /\ rawOut' = rawOut \o data
          /\ executionLog' = Append(executionLog, <<"STDOUT", trim(output)>>)
    /\ chunksSeen' = chunksSeen + 1
    /\ UNCHANGED <<pc, dialogueTurns, fsDirs, tempContainerDir, stderrData, exitCode,
                   actionLog, child, stdinEnded, stdinWrites, result, rmState,
                   termEvents, delivered, rawErr>>
    /\ UNCHANGED varsB
    /\ UNCHANGED chatVars

\* Lines 180-185: child.stderr.on('data')
StderrData ==
    /\ child = "running"
    /\ chunksSeen < MaxChunks
    /\ \E data \in StderrChunks :
          LET output == toString(data) IN
          /\ stderrData' = stderrData \o output
          /\ rawErr' = rawErr \o data
          /\ actionLog' = log("ERROR", <<"Container STDERR", trim(output)>>, NoData)
          /\ executionLog' = Append(executionLog, <<"STDERR", trim(output)>>)
    /\ chunksSeen' = chunksSeen + 1
    /\ UNCHANGED <<pc, dialogueTurns, fsDirs, tempContainerDir, stdoutData, exitCode,
                   child, stdinEnded, stdinWrites, result, rmState, termEvents, delivered,
                   rawOut>>
    /\ UNCHANGED varsB
    /\ UNCHANGED chatVars

\* Lines 201-212: child.on('error'), emitted when the runtime could not be
\* started.
ChildError ==
    /\ child = "failed"
    /\ actionLog' = log("ERROR", <<"Failed to start container process">>, NoData)
    /\ executionLog' = Append(executionLog, <<"Failed to start container process">>)
    /\ result' = resolve(result, errorResult)
    /\ termEvents' = Append(termEvents, [kind |-> "error", code |-> Null])
    /\ child' = "errored"
    /\ UNCHANGED <<pc, dialogueTurns, fsDirs, tempContainerDir, stdoutData, stderrData,
                   exitCode, stdinEnded, stdinWrites, chunksSeen, rmState, delivered>>
    /\ UNCHANGED rawVars
    /\ UNCHANGED varsB
    /\ UNCHANGED chatVars

\* The codes a 'close' event can carry: an exit status or null (killed by a
\* signal) for a child that ran, the negative errno after a failed start.
CloseCodes ==
    IF child = "running"
    THEN {<<c>> : c \in ExitCodes} \cup {Null}
    ELSE {<<c>> : c \in SpawnErrnos}

\* Lines 188-199: child.on('close')
ChildClose ==
    /\ child \in {"running", "errored"}
    /\ \E code \in CloseCodes :
          /\ exitCode' = code
          /\ actionLog' = log("INFO", <<"Container process exited with code", code>>, NoData)
          /\ executionLog' = Append(executionLog, <<"Container process exited with code", code>>)
          /\ result' = resolve(result, closeResult(code))
          /\ termEvents' = Append(termEvents, [kind |-> "close", code |-> code])
    /\ child' = "closed"
    /\ UNCHANGED <<pc, dialogueTurns, fsDirs, tempContainerDir, stdoutData, stderrData,
                   stdinEnded, stdinWrites, chunksSeen, rmState, delivered>>
    /\ UNCHANGED rawVars
    /\ UNCHANGED varsB
    /\ UNCHANGED chatVars

\* Lines 295-297 of run(): the promise of the async function is fulfilled once
\* the function body is over and the value it returned is settled; the
\* then-callback logs the result, whose log field is the executionLog array.
Deliver ==
    /\ pc = "done"
    /\ result # NoResult
    /\ delivered = 0
    /\ delivered' = delivered + 1
    /\ actionLog' = log("INFO", <<"Container execution finished (non-interactive test).">>,
                        [result |-> result, log |-> executionLog])
    /\ UNCHANGED <<pc, dialogueTurns, fsDirs, tempContainerDir, stdoutData, stderrData,
                   exitCode, executionLog, child, stdinEnded, stdinWrites, chunksSeen,
                   result, rmState, termEvents>>
    /\ UNCHANGED rawVars
    /\ UNCHANGED varsB
    /\ UNCHANGED chatVars

Next ==
    \/ Enter
    \/ MkdtempOk
    \/ MkdtempFail
    \/ ReadFileOk
    \/ ReadFileFail
    \/ WriteFileFail
    \/ SpawnAndReturn
    \/ RmSyscall
    \/ FinallyResume
    \/ StdoutData
    \/ StderrData
    \/ ChildError
    \/ ChildClose
    \/ Deliver

Spec == Init /\ [][Next]_vars

\* The event loop runs every continuation and callback of the program that is
\* ready; nothing makes the child emit output or exit.
FairSpec ==
    /\ Spec
    /\ WF_vars(Enter)
    /\ WF_vars(MkdtempOk \/ MkdtempFail)
    /\ WF_vars(ReadFileOk \/ ReadFileFail)
    /\ WF_vars(SpawnAndReturn \/ WriteFileFail)
    /\ WF_vars(RmSyscall)
    /\ WF_vars(FinallyResume)
    /\ WF_vars(ChildError)
    /\ WF_vars(Deliver)

----------------------------------------------------------------------------
(* A second call of executeInteractiveScriptInContainer with the same localAI,
   running concurrently with the first.  Its body is the same code on its own
   locals; the file system and localAI are the ones of the first call.  Its
   environment is kept small: the script is copied or not, the runtime
   starts, the child prints nothing and exits with a status. *)

\* The locals of the first call.
localsA == <<pc, dialogueTurns, tempContainerDir, stdoutData, stderrData, exitCode,
             executionLog, child, stdinEnded, stdinWrites, chunksSeen, result,
             rmState, termEvents, delivered, rawOut, rawErr>>

\* A second call whose executionLog is the array of the first call.
EnterBSharedLog ==
    /\ pcB = "entry"
    /\ actionLog' = log("INFO", <<"Starting container execution for script">>, NoData)
    /\ executionLog' = Append(executionLog, <<"Starting container execution for script">>)
    /\ pcB' = "mkdtemp"
    /\ UNCHANGED <<pc, dialogueTurns, tempContainerDir, stdoutData, stderrData, exitCode,
                   child, stdinEnded, stdinWrites, chunksSeen, result, rmState,
                   termEvents, delivered, rawOut, rawErr>>
    /\ UNCHANGED <<fsDirs, tempContainerDirB, rmStateB, executionLogB, childB, resultB>>
    /\ UNCHANGED chatVars

\* Lines 135-147 of the second call.
EnterB ==
    /\ pcB = "entry"
    /\ actionLog' = log("INFO", <<"Starting container execution for script">>, NoData)
    /\ executionLogB' = Append(executionLogB, <<"Starting container execution for script">>)
    /\ pcB' = "mkdtemp"
    /\ UNCHANGED localsA
    /\ UNCHANGED chatVars
    /\ UNCHANGED <<fsDirs, tempContainerDirB, rmStateB, childB, resultB>>

\* Lines 147-153 of the second call.
MkdtempOkB ==
    /\ pcB = "mkdtemp"
    /\ \E d \in DirNames \ fsDirs :
          /\ fsDirs' = fsDirs \cup {d}
          /\ tempContainerDirB' = <<d>>
          /\ actionLog' = log("DEBUG", <<"Created temporary container directory", d>>, NoData)
          /\ executionLogB' = Append(executionLogB, <<"Created temporary container directory", d>>)
    /\ pcB' = "readFile"
    /\ UNCHANGED localsA
    /\ UNCHANGED chatVars
    /\ UNCHANGED <<rmStateB, childB, resultB>>

\* Lines 219-233 of the second call: catch, then the start of finally.
StagingFailB ==
    /\ pcB \in {"mkdtemp", "readFile", "writeFile"}
    /\ actionLog' = log("ERROR", <<"Error in executeInteractiveScriptInContainer", pcB>>, NoData)
    /\ executionLogB' = Append(executionLogB, <<"Error in executeInteractiveScriptInContainer", pcB>>)
    /\ resultB' = [success |-> FALSE,
                   stdout |-> <<>>,
                   stderr |-> <<"\nOuter try-catch error: ", pcB>>,
                   exitCode |-> Null]
    /\ IF needsCleanup(tempContainerDirB)
       THEN pcB' = "rm" /\ rmStateB' = "pending"
       ELSE pcB' = "done" /\ UNCHANGED rmStateB
    /\ UNCHANGED localsA
    /\ UNCHANGED chatVars
    /\ UNCHANGED <<fsDirs, tempContainerDirB, childB>>

\* Lines 153-154 of the second call.
ReadFileOkB ==
    /\ pcB = "readFile"
    /\ pcB' = "writeFile"
    /\ UNCHANGED localsA
    /\ UNCHANGED chatVars
    /\ UNCHANGED <<fsDirs, actionLog, tempContainerDirB, rmStateB, executionLogB, childB,
                   resultB>>

\* Lines 155-217 and 230-233 of the second call.
SpawnAndReturnB ==
    /\ pcB = "writeFile"
    /\ actionLog' =
          Append(log("DEBUG", <<"Copied script and set executable.">>, NoData),
                 [level |-> "INFO", message |-> <<"Executing: sudo systemd-nspawn">>])
    /\ executionLogB' = executionLogB \o <<<<"Copied script and set executable.">>,
                                           <<"Executing: sudo systemd-nspawn">>>>
    /\ childB' = "running"
    /\ IF needsCleanup(tempContainerDirB)
       THEN pcB' = "rm" /\ rmStateB' = "pending"
       ELSE pcB' = "done" /\ UNCHANGED rmStateB
    /\ UNCHANGED localsA
    /\ UNCHANGED chatVars
    /\ UNCHANGED <<fsDirs, tempContainerDirB, resultB>>

\* fs.rm of the second call at work.
RmSyscallB ==
    /\ pcB = "rm"
    /\ rmStateB = "pending"
    /\ \/ /\ rmStateB' = "removed"
          /\ fsDirs' = fsDirs \ {tempContainerDirB[1]}
       \/ /\ rmStateB' = "failed"
          /\ UNCHANGED fsDirs
    /\ UNCHANGED localsA
    /\ UNCHANGED chatVars
    /\ UNCHANGED <<actionLog, pcB, tempContainerDirB, executionLogB, childB, resultB>>

\* Lines 233-238 of the second call.
FinallyResumeB ==
    /\ pcB = "rm"
    /\ rmStateB \in {"removed", "failed"}
    /\ actionLog' =
          IF rmStateB = "removed"
          THEN log("DEBUG", <<"Cleaned up temporary directory", tempContainerDirB[1]>>, NoData)
          ELSE log("ERROR", <<"Failed to clean up temporary directory", tempContainerDirB[1]>>, NoData)
    /\ pcB' = "done"
    /\ UNCHANGED localsA
    /\ UNCHANGED chatVars
    /\ UNCHANGED <<fsDirs, tempContainerDirB, rmStateB, executionLogB, childB, resultB>>

\* Lines 188-199 of the second call: child.on('close').
ChildCloseB ==
    /\ childB = "running"
    /\ \E c \in ExitCodes :
          /\ actionLog' = log("INFO", <<"Container process exited with code", <<c>>>>, NoData)
          /\ executionLogB' = Append(executionLogB, <<"Container process exited with code", <<c>>>>)
          /\ resultB' = resolve(resultB, [success |-> c = 0,
                                          stdout |-> <<>>,
                                          stderr |-> <<>>,
                                          exitCode |-> <<c>>])
    /\ childB' = "closed"
    /\ UNCHANGED localsA
    /\ UNCHANGED chatVars
    /\ UNCHANGED <<fsDirs, pcB, tempContainerDirB, rmStateB>>

\* Two calls in flight, both with an empty turn list as in run() (line 294).
ConcInit ==
    /\ InitFirst
    /\ dialogueTurns = <<>>
    /\ InitSecond
    /\ pcB = "entry"
    /\ InitChat

\* The steps of both calls interleave; the first call's child prints nothing
\* here either.
ConcNext ==
    \/ Enter
    \/ MkdtempOk
    \/ MkdtempFail
    \/ ReadFileOk
    \/ ReadFileFail
    \/ WriteFileFail
    \/ SpawnAndReturn
    \/ RmSyscall
    \/ FinallyResume
    \/ ChildError
    \/ ChildClose
    \/ Deliver
    \/ EnterB
    \/ MkdtempOkB
    \/ StagingFailB
    \/ ReadFileOkB
    \/ SpawnAndReturnB
    \/ RmSyscallB
    \/ FinallyResumeB
    \/ ChildCloseB

ConcSpec == ConcInit /\ [][ConcNext]_vars

----------------------------------------------------------------------------
(* The chat loop of run() (lines 301-390): one line of user input, the
   model's answer, the dispatch of the function calls the answer carries and
   the message that returns their results.  The loop has no await between
   the arrival of a response and the chat.sendMessage that answers it, so
   each of the two is one step.  console.log output is not modelled. *)

MaxInputs == 1
MaxCalls == 2

\* Lines typed at the prompt.
UserInputs == {"exit", "QUIT", "list the files"}

\* String.prototype.toLowerCase()
toLowerCase(s) ==
    CASE s = "QUIT" -> "quit"
      [] s = "EXIT" -> "exit"
      [] OTHER -> s

\* The values of funcCall.args.path: <<type, value>>; a missing property
\* reads as undefined.
PathString == <<"string", ".">>
PathUndefined == <<"undefined">>
typeof(v) == v[1]

\* The function calls a response can carry; args is an object, as the SDK's
\* FunctionCall type declares.
FuncCalls ==
    {[name |-> "list_project_files", args |-> [path |-> PathString]],
     [name |-> "list_project_files", args |-> [path |-> PathUndefined]],
     [name |-> "executeInteractiveScriptInContainer_TODO", args |-> [path |-> PathUndefined]],
     [name |-> "read_file", args |-> [path |-> PathString]]}

\* response.functionCalls(): undefined or [] read as <<>>.
CallSeqs == UNION {[1..n -> FuncCalls] : n \in 0..MaxCalls}

\* What the response to a function-response message can carry: text only, or
\* one further function call.
FollowUpSeqs == {s \in CallSeqs : Len(s) <= 1}

\* A dispatch whose invalid-argument branch logs the error and continues
\* without a response part.
pushedForSkipsInvalid(funcCall) ==
    IF funcCall.name = "list_project_files"
    THEN IF typeof(funcCall.args.path) # "string"
         THEN <<>>
         ELSE <<[name |-> "list_project_files",
                 response |-> [success |-> TRUE,
                               message |-> <<"Tool call for 'list_project_files' for path",
                                             funcCall.args.path[2], "was invoked.">>]]>>
    ELSE IF funcCall.name = "executeInteractiveScriptInContainer_TODO"
         THEN <<[name |-> funcCall.name,
                 response |-> [success |-> FALSE, message |-> <<"Not implemented yet">>]]>>
         ELSE <<[name |-> funcCall.name,
                 response |-> [error |-> <<"Unsupported function", funcCall.name>>]]>>

\* Lines 323-369: the functionResponse parts one iteration of the for loop
\* pushes onto responses.
pushedFor(funcCall) ==
    IF funcCall.name = "list_project_files"
    THEN IF typeof(funcCall.args.path) # "string"
         THEN <<[name |-> "list_project_files",
                 response |-> [error |-> <<"Invalid 'path' argument. It must be a string.">>]]>>
         ELSE <<[name |-> "list_project_files",
                 response |-> [success |-> TRUE,
                               message |-> <<"Tool call for 'list_project_files' for path",
                                             funcCall.args.path[2], "was invoked.">>]]>>
    ELSE IF funcCall.name = "executeInteractiveScriptInContainer_TODO"
         THEN <<[name |-> funcCall.name,
                 response |-> [success |-> FALSE, message |-> <<"Not implemented yet">>]]>>
         ELSE <<[name |-> funcCall.name,
                 response |-> [error |-> <<"Unsupported function", funcCall.name>>]]>>

\* Lines 322-369: the entries one iteration of the for loop appends to
\* actionLog; funcCall.args is an object, hence truthy.
loggedFor(funcCall) ==
    <<[level |-> "DEBUG",
       message |-> <<"Processing function call:", funcCall.name,
                     "Data:", funcCall.args.path>>]>>
    \o (IF funcCall.name = "list_project_files"
        THEN IF typeof(funcCall.args.path) # "string"
             THEN <<[level |-> "ERROR",
                     message |-> <<"Function call 'list_project_files' failed: Invalid path argument.">>]>>
             ELSE <<[level |-> "INFO",
                     message |-> <<"Simulating tool call for list_project_files with path:",
                                   funcCall.args.path[2]>>]>>
        ELSE IF funcCall.name = "executeInteractiveScriptInContainer_TODO"
             THEN <<>>
             ELSE <<[level |-> "WARN",
                     message |-> <<"Unsupported function call:", funcCall.name>>]>>)

\* Lines 320-370: for (const funcCall of functionCalls), on responses.
RECURSIVE pushAll(_)
pushAll(calls) ==
    IF calls = <<>> THEN <<>>
    ELSE pushedFor(Head(calls)) \o pushAll(Tail(calls))

\* Lines 321-370: the same loop, on actionLog.
RECURSIVE logAll(_)
logAll(calls) ==
    IF calls = <<>> THEN <<>>
    ELSE loggedFor(Head(calls)) \o logAll(Tail(calls))

\* Everything of the program outside the chat loop and the shared actionLog.
containerVars == <<pc, dialogueTurns, fsDirs, tempContainerDir, stdoutData, stderrData,
                   exitCode, executionLog, child, stdinEnded, stdinWrites, chunksSeen,
                   result, rmState, termEvents, delivered, rawOut, rawErr,
                   pcB, tempContainerDirB, rmStateB, executionLogB, childB, resultB>>

\* Lines 302-309: the user types exit or quit and the loop ends.
QuestionExit ==
    /\ chatPc = "question"
    /\ \E userInput \in UserInputs :
          toLowerCase(userInput) \in {"exit", "quit"}
    /\ actionLog' = log("INFO", <<"User requested to exit.">>, NoData)
    /\ chatPc' = "ended"
    /\ UNCHANGED <<inputsRead, functionCalls, responses, sentMessages, modelResponses>>
    /\ UNCHANGED containerVars

\* Lines 302-313: any other line is logged and sent to the model.
QuestionInput ==
    /\ chatPc = "question"
    /\ inputsRead < MaxInputs
    /\ \E userInput \in UserInputs :
          /\ toLowerCase(userInput) \notin {"exit", "quit"}
          /\ actionLog' = log("INFO", <<"User input:", userInput>>, NoData)
          /\ sentMessages' = Append(sentMessages, [kind |-> "text", text |-> userInput])
    /\ inputsRead' = inputsRead + 1
    /\ chatPc' = "awaitResponse"
    /\ UNCHANGED <<functionCalls, responses, modelResponses>>
    /\ UNCHANGED containerVars

\* Lines 313-383: chat.sendMessage(userInput) resolves; the function calls of
\* the response are dispatched and their parts sent in one message, or the
\* text of the response is printed.
ResponseArrives ==
    /\ chatPc = "awaitResponse"
    /\ \E calls \in CallSeqs :
          /\ modelResponses' = Append(modelResponses, [to |-> "text", calls |-> calls])
          /\ functionCalls' = calls
          /\ IF Len(calls) > 0
             THEN /\ responses' = pushAll(calls)
                  /\ actionLog' =
                        log("INFO", <<"Received", Len(calls), "function call(s) from Gemini.">>, NoData)
                        \o logAll(calls)
                  /\ IF Len(responses') > 0
                     THEN /\ sentMessages' =
                                Append(sentMessages, [kind |-> "parts", parts |-> responses'])
                          /\ chatPc' = "awaitNextResponse"
                     ELSE /\ chatPc' = "question"
                          /\ UNCHANGED sentMessages
             ELSE /\ actionLog' = log("INFO", <<"Gemini response:", "text">>, NoData)
                  /\ chatPc' = "question"
                  /\ UNCHANGED <<responses, sentMessages>>
    /\ UNCHANGED inputsRead
    /\ UNCHANGED containerVars

\* Lines 313 and 385-388: chat.sendMessage(userInput) rejects.
SendMessageFails ==
    /\ chatPc = "awaitResponse"
    /\ actionLog' = log("ERROR", <<"Error during chat processing:", "sendMessage failed">>, NoData)
    /\ chatPc' = "question"
    /\ UNCHANGED <<inputsRead, functionCalls, responses, sentMessages, modelResponses>>
    /\ UNCHANGED containerVars

\* Lines 372-377: chat.sendMessage(responses) resolves; only the text of the
\* next response is read.
NextResponseArrives ==
    /\ chatPc = "awaitNextResponse"
    /\ \E calls \in FollowUpSeqs :
          modelResponses' = Append(modelResponses, [to |-> "parts", calls |-> calls])
    /\ actionLog' =
          Append(log("DEBUG", <<"Sent function responses to Gemini. Waiting for next model response.">>, NoData),
                 [level |-> "INFO",
                  message |-> <<"Gemini response after function call:", "text">>])
    /\ chatPc' = "question"
    /\ UNCHANGED <<inputsRead, functionCalls, responses, sentMessages>>
    /\ UNCHANGED containerVars

\* Lines 372 and 385-388: chat.sendMessage(responses) rejects.
SendResponsesFails ==
    /\ chatPc = "awaitNextResponse"
    /\ actionLog' = log("ERROR", <<"Error during chat processing:", "sendMessage failed">>, NoData)
    /\ chatPc' = "question"
    /\ UNCHANGED <<inputsRead, functionCalls, responses, sentMessages, modelResponses>>
    /\ UNCHANGED containerVars

ChatNext ==
    \/ QuestionExit
    \/ QuestionInput
    \/ ResponseArrives
    \/ SendMessageFails
    \/ NextResponseArrives
    \/ SendResponsesFails

\* run() at its first prompt: the container call of line 291 has been made
\* with an empty turn list (line 294) and has not run yet.
ChatInit ==
    /\ Init
    /\ dialogueTurns = <<>>
    /\ fsDirs = {}

\* The chat loop alone: the container call does not move.
ChatSpec == ChatInit /\ [][ChatNext]_vars

----------------------------------------------------------------------------
(* Vocabulary of the claims *)

\* The number of turns the DialogueMatcher of the design would have consumed
\* on the output captured so far: turn i matches when its prompt occurs in
\* the output after the match of turn i-1.
RECURSIVE MatchedTurns(_, _)
MatchedTurns(output, turns) ==
    IF turns = <<>> THEN 0
    ELSE LET hits == {i \in 1..Len(output) : output[i] = Head(turns).promptRegex} IN
         IF hits = {} THEN 0
         ELSE LET first == CHOOSE i \in hits : \A j \in hits : i <= j IN
              1 + MatchedTurns(SubSeq(output, first + 1, Len(output)), Tail(turns))

RootCreated == tempContainerDir # <<>>
RootExists == RootCreated /\ tempContainerDir[1] \in fsDirs
Delivered == delivered >= 1

\* The verdict a terminating event stands for.
VerdictOf(e) ==
    IF e.kind = "close"
    THEN [success |-> e.code = <<0>>, exitCode |-> e.code]
    ELSE [success |-> FALSE, exitCode |-> Null]

Verdict(r) == [success |-> r.success, exitCode |-> r.exitCode]

----------------------------------------------------------------------------
(* C1 *)

\* C1 as stated: whenever the call has delivered its result and a staging
\* root was created for the execution, that root does not exist.
C1_RootAbsentAtDelivery ==
    (Delivered /\ RootCreated) => ~RootExists

\* C1 amended: whenever the call has delivered its result and a staging root
\* was created, the removal of the root has been carried out to its end, and
\* the root is absent unless that removal itself failed.
C1_RemovalFinishedAtDelivery ==
    (Delivered /\ RootCreated) =>
        /\ rmState \in {"removed", "failed"}
        /\ (rmState = "removed" => ~RootExists)

C1_Witness ==
    /\ Delivered
    /\ RootCreated
    /\ rmState = "removed"
    /\ ~RootExists
    /\ termEvents[1].kind = "close"

(* C2 *)

\* C2: the staging root is released only after the child completed: when a
\* child was spawned, the removal has not happened before a terminating
\* event (close, error) was observed, and the root exists while the child
\* runs.
C2_ReleaseAfterCompletion ==
    /\ (child # "none" /\ rmState \in {"removed", "failed"}) => termEvents # <<>>
    /\ child = "running" => RootExists

(* C3 *)

\* C3: one result per request, never replaced: the then-callback runs at most
\* once, a settled result never changes, the verdict of the result is that
\* of the first terminating event (exception, error or close), and once a
\* terminating event has occurred the caller does receive the result.
C3_OneResultFirstEventWins ==
    /\ [][/\ delivered' <= 1
          /\ (result # NoResult => result' = result)
          /\ (result' # NoResult =>
                 /\ termEvents' # <<>>
                 /\ Verdict(result') = VerdictOf(termEvents'[1]))]_vars
    /\ (termEvents # <<>>) ~> Delivered

C3_Witness ==
    /\ Delivered
    /\ Len(termEvents) = 2
    /\ termEvents[1].kind = "error"
    /\ termEvents[2].kind = "close"

(* C4 *)

\* C4: every execution eventually delivers a result, also when the child
\* never exits on its own or never emits the awaited prompt.
C4_EventuallyDelivered == <>Delivered

(* C5 *)

\* C5: when turns are given and the output never held a prompt matching
\* turn 0, a delivered result has success = false (the error kind
\* DialogueTimeout has no field in ContainerExecutionResult to be stated on).
C5_NoPromptMeansFailure ==
    (Delivered /\ dialogueTurns # <<>> /\ MatchedTurns(stdoutData, dialogueTurns) = 0)
        => result.success = FALSE

(* C6 *)

\* C6: the writes to the child's stdin are exactly the responses of the
\* matched turns, in turn order.
C6_WritesEqualMatchedTurns ==
    stdinWrites = [i \in 1..MatchedTurns(stdoutData, dialogueTurns) |->
                      dialogueTurns[i].response]

(* C7 *)

\* C7: with an empty turn sequence stdin is ended from the launch on, hence
\* before any chunk is processed, nothing is ever written to it, and the
\* success flag of the result equals (exitCode = 0).
C7_EmptyTurnsCloseStdinFirst ==
    dialogueTurns = <<>> =>
        /\ (child # "none" => stdinEnded)
        /\ (chunksSeen > 0 => stdinEnded)
        /\ stdinWrites = <<>>
        /\ (result # NoResult => result.success = (result.exitCode = <<0>>))

C7_Witness ==
    /\ dialogueTurns = <<>>
    /\ chunksSeen > 0
    /\ stdinEnded
    /\ Delivered
    /\ result.success
    /\ result.exitCode = <<0>>

(* C8 *)

\* C8: with a non-empty turn sequence, once the prompts of all turns have
\* appeared (the final turn is consumed) stdin is ended.
C8_StdinClosedAfterFinalTurn ==
    (dialogueTurns # <<>> /\ child # "none"
        /\ MatchedTurns(stdoutData, dialogueTurns) = Len(dialogueTurns))
        => stdinEnded

(* C10 *)

\* C10: in every delivered result success is true exactly when the exit code
\* in the result is 0, which is exactly when the child reported exit code 0,
\* and a result that comes from the child's exit carries the code the child
\* reported.
C10_SuccessIffExitZero ==
    Delivered =>
        /\ result.success = (result.exitCode = <<0>>)
        /\ result.success = (\E i \in 1..Len(termEvents) :
                                termEvents[i] = [kind |-> "close", code |-> <<0>>])
        /\ (termEvents[1].kind = "close" => result.exitCode = termEvents[1].code)

C10_Witness ==
    /\ Delivered
    /\ termEvents[1].kind = "close"
    /\ result.exitCode = <<1>>
    /\ result.success = FALSE

(* C11 *)

\* C11: when staging fails (the first terminating event is the exception of
\* the try block) no child is ever spawned, and the result has success =
\* false and a null exit code.
C11_StagingFailureNoChild ==
    (termEvents # <<>> /\ termEvents[1].kind = "exception") =>
        /\ child = "none"
        /\ Len(termEvents) = 1
        /\ result.success = FALSE
        /\ result.exitCode = Null

C11_Witness ==
    /\ Delivered
    /\ termEvents[1].kind = "exception"
    /\ RootCreated
    /\ child = "none"

(* C12 *)

\* C12: when the runtime could not be started (the first terminating event
\* is 'error') the result has success = false and exitCode = null, also
\* after a 'close' event with a code has followed.
C12_SpawnErrorNullCode ==
    (termEvents # <<>> /\ termEvents[1].kind = "error") =>
        /\ result.success = FALSE
        /\ result.exitCode = Null

C12_Witness ==
    /\ Delivered
    /\ Len(termEvents) = 2
    /\ termEvents[1].kind = "error"
    /\ termEvents[2] = [kind |-> "close", code |-> <<-2>>]
    /\ exitCode = <<-2>>
    /\ result.exitCode = Null

(* C13 *)

CleanupFailureLogged ==
    \E i \in 1..Len(actionLog) :
        /\ actionLog[i].level = "ERROR"
        /\ actionLog[i].message = <<"Failed to clean up temporary directory", tempContainerDir[1]>>

\* C13: the removal of the staging root, failed or not, changes nothing of
\* the result (settled value, captured output, exit code, result log) and
\* is never raised: the function body still ends, and a failed removal is in
\* localAI's log from then on.
C13_CleanupNeverChangesResult ==
    /\ [][pc = "rm" /\ (rmState' # rmState \/ pc' # pc) =>
             /\ result' = result
             /\ stdoutData' = stdoutData
             /\ stderrData' = stderrData
             /\ exitCode' = exitCode
             /\ executionLog' = executionLog
             /\ pc' \in {"rm", "done"}]_vars
    /\ [](pc = "done" /\ rmState = "failed" => CleanupFailureLogged)

C13_Witness ==
    /\ Delivered
    /\ rmState = "failed"
    /\ CleanupFailureLogged
    /\ result.success = TRUE

(* C14 *)

Range(seq) == {seq[i] : i \in 1..Len(seq)}

\* The text occurs in an entry of the result's log or of localAI's log: in
\* the output an entry quotes, or in the result the then-callback logs.
TextLogged(text) ==
    \/ \E i \in 1..Len(executionLog) :
          /\ executionLog[i][1] \in {"STDOUT", "STDERR"}
          /\ text \in Range(executionLog[i][2])
    \/ \E i \in 1..Len(actionLog) :
          \/ /\ actionLog[i].message[1] = "Container STDERR"
             /\ text \in Range(actionLog[i].message[2])
          \/ /\ actionLog[i].message[1] = "Container execution finished (non-interactive test)."
             /\ text \in Range(actionLog[i].message[3].result.stdout)
                            \cup Range(actionLog[i].message[3].result.stderr)

\* C14: for every matched turn marked isPassword, the response is in no log
\* entry, and it has been written to the child's stdin.
C14_ConfidentialWrittenNotLogged ==
    \A i \in 1..MatchedTurns(stdoutData, dialogueTurns) :
        dialogueTurns[i].isPassword =>
            /\ ~TextLogged(dialogueTurns[i].response)
            /\ dialogueTurns[i].response \in Range(stdinWrites)

(* C17 *)

\* C17 as stated: a result that comes from a staging failure or a spawn
\* failure has empty captured stdout and empty captured stderr.
C17_NoPartialOutput ==
    (termEvents # <<>> /\ termEvents[1].kind \in {"exception", "error"}) =>
        /\ result.stdout = <<>>
        /\ result.stderr = <<>>

\* C17 amended: such a result has empty captured stdout, and its captured
\* stderr holds nothing the child emitted: it is the one error line the
\* function itself appends.
C17_OnlyTheErrorLine ==
    (termEvents # <<>> /\ termEvents[1].kind \in {"exception", "error"}) =>
        /\ result.stdout = <<>>
        /\ Len(result.stderr) = 2
        /\ result.stderr[1] = IF termEvents[1].kind = "error"
                              THEN "\nProcess spawn error: "
                              ELSE "\nOuter try-catch error: "

C17_Witness ==
    /\ Delivered
    /\ termEvents[1].kind = "error"
    /\ result.stdout = <<>>
    /\ result.stderr = <<"\nProcess spawn error: ", "spawn sudo ENOENT">>

(* C18 *)

\* Position of the first entry of the result's log with the given head, 0
\* when there is none.
LogIndex(heads) ==
    LET hits == {i \in 1..Len(executionLog) : executionLog[i][1] \in heads} IN
    IF hits = {} THEN 0 ELSE CHOOSE i \in hits : \A j \in hits : i <= j

\* C18: the log of a delivered result of a child that ran to its exit has,
\* in order, the entries of stage created, script copied and launch
\* command, an entry for the process exit, and an entry for the cleanup
\* outcome.
C18_LogHasEveryLifecycleEvent ==
    (Delivered /\ termEvents[1].kind = "close") =>
        /\ 0 < LogIndex({"Created temporary container directory"})
        /\ LogIndex({"Created temporary container directory"})
              < LogIndex({"Copied script and set executable."})
        /\ LogIndex({"Copied script and set executable."})
              < LogIndex({"Executing: sudo systemd-nspawn"})
        /\ LogIndex({"Executing: sudo systemd-nspawn"})
              < LogIndex({"Container process exited with code"})
        /\ 0 < LogIndex({"Cleaned up temporary directory",
                         "Failed to clean up temporary directory"})

(* C20 *)

\* C20: once the result is delivered, nothing of it changes any more: not
\* the settled value (success, exit code, captured output) and not the log
\* sequence it carries.
C20_DeliveredResultFrozen ==
    [][Delivered => (result' = result /\ executionLog' = executionLog)]_vars

(* C16 *)

\* C16: when the child has exited, the captured stdout of the result is the
\* text of all stdout bytes in arrival order, and the captured stderr that
\* of all stderr bytes: nothing is lost, duplicated or put on the other
\* stream.
C16_CapturedEqualsChunks ==
    (result # NoResult /\ termEvents[1].kind = "close") =>
        /\ result.stdout = toString(rawOut)
        /\ result.stderr = toString(rawErr)

(* C15 *)

HoldsRootB == tempContainerDirB # <<>> /\ rmStateB # "removed"

\* C15: two concurrent executions never have the same staging root: while
\* the child of one runs in its root, or that root is not yet removed, the
\* other execution does not hold a root of the same path; and the root an
\* execution holds exists until its own cleanup removes it.
C15_DistinctRoots ==
    /\ ((child = "running" \/ (RootCreated /\ rmState # "removed")) /\ HoldsRootB)
          => tempContainerDir # tempContainerDirB
    /\ HoldsRootB => tempContainerDirB[1] \in fsDirs
    /\ (RootCreated /\ rmState # "removed") => RootExists

(* C19 *)

\* A step of the second call.
StepOfB == pcB' # pcB \/ rmStateB' # rmStateB \/ childB' # childB

\* C19 as stated: no log sequence receives entries of both executions: once
\* the first execution writes to a log and is still in flight, no step of
\* the second one writes to the same log.
C19_NoSharedLog ==
    [][(pc # "entry" /\ delivered = 0 /\ StepOfB) =>
          (actionLog' = actionLog /\ executionLog' = executionLog)]_vars

\* C19 amended: each execution owns its result log: a step of the second
\* call leaves the executionLog of the first unchanged, and only steps of
\* the second call change its own executionLog.
C19_OwnExecutionLog ==
    [][/\ StepOfB => executionLog' = executionLog
       /\ executionLogB' # executionLogB => StepOfB]_vars

C19_Witness ==
    /\ Len(executionLog) >= 2
    /\ Len(executionLogB) >= 2
    /\ child = "running"
    /\ childB = "running"
    /\ Len(actionLog) >= 5

----------------------------------------------------------------------------
(* The chat loop's function-call dispatch *)

\* The function-response messages given to chat.sendMessage, in order.
IsPartsMessage(m) == m.kind = "parts"
PartsMessages == SelectSeq(sentMessages, IsPartsMessage)

\* The model responses that carry function calls, in order of arrival, and
\* those of them that answer a line of user input.
CarriesCalls(r) == r.calls # <<>>
AnswersInputWithCalls(r) == r.to = "text" /\ r.calls # <<>>
CallingResponses == SelectSeq(modelResponses, CarriesCalls)
CallingInputResponses == SelectSeq(modelResponses, AnswersInputWithCalls)

\* The message answers the calls: one part per call, in the order of the
\* calls, each part under the name of its call.
AnswersCalls(m, calls) ==
    /\ Len(m.parts) = Len(calls)
    /\ \A i \in 1..Len(calls) : m.parts[i].name = calls[i].name

\* C21: every model response carrying n function calls is answered by one
\* message of exactly n function-response parts, in the order of the calls
\* and each bearing the name of its call; a response without function calls
\* has nothing sent back.  So the function-response messages sent are, one
\* for one and in order, the answers to the responses that carried calls.
C21_EveryCallingResponseAnswered ==
    /\ Len(PartsMessages) = Len(CallingResponses)
    /\ \A k \in 1..Len(PartsMessages) :
          k <= Len(CallingResponses) => AnswersCalls(PartsMessages[k], CallingResponses[k].calls)

\* C21, for the responses that answer a line of user input (lines 313-372):
\* each of them that carries n calls is answered by one message of n parts,
\* in order and by name, and one without calls by none.
C21_InputResponsesAnswered ==
    /\ Len(PartsMessages) = Len(CallingInputResponses)
    /\ \A k \in 1..Len(PartsMessages) :
          AnswersCalls(PartsMessages[k], CallingInputResponses[k].calls)

\* A response with two calls, an invalid path argument and an unsupported
\* name among them, has been answered.
C21_DispatchWitness ==
    /\ chatPc = "awaitNextResponse"
    /\ Len(functionCalls) = 2
    /\ \E i, j \in 1..2 :
          /\ functionCalls[i].name = "list_project_files"
          /\ typeof(functionCalls[i].args.path) # "string"
          /\ functionCalls[j].name = "read_file"
    /\ PartsMessages # <<>>

\* The response to a function-response message carried a function call of
\* its own and the loop is back at the prompt.
C21_UnansweredWitness ==
    /\ chatPc = "question"
    /\ Len(CallingResponses) > Len(PartsMessages)

====
